---- MODULE Spec2Model ----
(***************************************************************************)
(* State-machine model of seedr_sync.py: the recursive listing of the      *)
(* remote tree (get_all_files), the concurrent downloads gathered by main, *)
(* the concurrent deletes of the downloaded files and the pruning of the   *)
(* top-level folders (delete_empty_folders).                               *)
(*                                                                         *)
(* The remote store (the aioseedrcc client) is modelled by the tree chosen *)
(* in Init plus the sets of files and folders still present.  Every await  *)
(* on the client or on the HTTP session is one step that either returns or *)
(* raises.  asyncio runs a new task up to its first await without          *)
(* interleaving, so a task is first observed with its first request in     *)
(* flight.                                                                 *)
(***************************************************************************)
EXTENDS Integers, Sequences, FiniteSets, TLC

\* Bounds of the remote trees that are explored.
MaxFiles == 3
MaxFolders == 2

\* folder_id of the root folder ("root" in the source).
Root == 0

\* Leaf names of the remote files and folders, by id.
FileNames == <<"a", "b", "c", "d", "e", "f">>
FolderNames == <<"x", "y", "z", "u", "v", "w">>

\* resp.status values: 200 and one representative of the others.
Statuses == {200, 404}

VARIABLES
    tree,           \* the remote hierarchy at the start of the run
    rfiles,         \* ids of the files present in the remote store
    rfolders,       \* ids of the folders present in the remote store
    phase,          \* position of main
    abortedIn,      \* phase main was in when an exception escaped it
    stack,          \* pending get_all_files calls, innermost first
    files,          \* the list of File objects built by get_all_files
    snapshot,       \* folders whose listing during get_all_files was empty
    listFaults,     \* folders whose listing during get_all_files raised
    outcome,        \* per File: _download_was_successful ("None" = unset)
    dl,             \* per File: position of its process_file task
    status,         \* per File: resp.status received (0 = no response)
    del,            \* per File: position of its delete_successful_file task
    local,          \* paths opened for writing on the local disk
    fileDeletes,    \* file ids for which delete_item(id, 'file') was called
    folderDeletes,  \* folder ids for which delete_item(id, 'folder') was called
    ppc,            \* position inside delete_empty_folders
    pfolders,       \* folders['folders'] of the listing of root at prune time
    pidx,           \* index of the loop over pfolders
    pruneSeen       \* <<folder, result>> of every is_folder_empty call

vars == <<tree, rfiles, rfolders, phase, abortedIn, stack, files, snapshot,
          listFaults, outcome, dl, status, del, local, fileDeletes, folderDeletes,
          ppc, pfolders, pidx, pruneSeen>>

remoteVars == <<tree, rfiles, rfolders>>
listVars == <<stack, files, snapshot, listFaults>>
pruneVars == <<ppc, pfolders, pidx, pruneSeen, folderDeletes>>

----------------------------------------------------------------------------
\* Helpers

RECURSIVE SeqOfSet(_)
\* The elements of a finite set of ids in ascending order.
SeqOfSet(S) ==
    IF S = {} THEN <<>>
    ELSE LET m == CHOOSE x \in S : \A y \in S : x <= y
         IN <<m>> \o SeqOfSet(S \ {m})

Fill(n, v) == [i \in 1..n |-> v]

Tasks == DOMAIN files

\* The remote trees: files 1..nf and folders 1..nd, every folder below the
\* root or below a folder of smaller id.
Trees ==
    UNION { UNION { { [files |-> 1..nf, folders |-> 1..nd,
                       fparent |-> fp, dparent |-> dp,
                       fname |-> [f \in 1..nf |-> FileNames[f]],
                       dname |-> [d \in 1..nd |-> FolderNames[d]]] :
                      fp \in [1..nf -> 0..nd],
                      dp \in {g \in [1..nd -> 0..nd] : \A d \in 1..nd : g[d] < d} } :
                    nd \in 0..MaxFolders } :
            nf \in 0..MaxFiles }

\* seedr.list_contents(folder_id): the files and folders directly inside.
list_contents(folder_id) ==
    [files |-> SeqOfSet({f \in rfiles : tree.fparent[f] = folder_id}),
     folders |-> SeqOfSet({d \in rfolders : tree.dparent[d] = folder_id})]

RECURSIVE Below(_, _)
\* Is folder d inside folder top (or top itself)?
Below(d, top) ==
    IF d = top THEN TRUE
    ELSE IF d = Root THEN FALSE
    ELSE Below(tree.dparent[d], top)

\* An exception escapes the gather or the await main is blocked on in phase p.
Raise(p) ==
    IF phase = p
    THEN phase' = "Aborted" /\ abortedIn' = p
    ELSE UNCHANGED <<phase, abortedIn>>

----------------------------------------------------------------------------
Init ==
    /\ tree \in Trees
    /\ rfiles = tree.files
    /\ rfolders = tree.folders
    /\ phase = "Listing"
    /\ abortedIn = "none"
    /\ stack = << [id |-> Root, path |-> <<>>] >>
    /\ files = <<>>
    /\ snapshot = {}
    /\ listFaults = {}
    /\ outcome = <<>>
    /\ dl = <<>>
    /\ status = <<>>
    /\ del = <<>>
    /\ local = {}
    /\ fileDeletes = {}
    /\ folderDeletes = {}
    /\ ppc = "idle"
    /\ pfolders = <<>>
    /\ pidx = 0
    /\ pruneSeen = {}

----------------------------------------------------------------------------
\* Listing: get_all_files

\* Variant: the subfolders of the listing are not visited.
ListOkNoRecurse ==
    /\ phase = "Listing"
    /\ stack # <<>>
    /\ LET fr == Head(stack)
           folder == list_contents(fr.id)
           new == [i \in 1..Len(folder.files) |->
                     [id |-> folder.files[i],
                      name |-> tree.fname[folder.files[i]],
                      path |-> Append(fr.path, tree.fname[folder.files[i]])]]
       IN /\ files' = files \o new
          /\ stack' = Tail(stack)
          /\ snapshot' = IF folder.files = <<>> /\ folder.folders = <<>>
                         THEN snapshot \cup {fr.id} ELSE snapshot
          /\ outcome' = outcome \o Fill(Len(new), "None")
          /\ dl' = dl \o Fill(Len(new), "idle")
          /\ status' = status \o Fill(Len(new), 0)
          /\ del' = del \o Fill(Len(new), "idle")
    /\ UNCHANGED <<remoteVars, phase, abortedIn, listFaults, local,
                   fileDeletes, pruneVars>>

\* Variant: the subfolders are visited last to first.
ListOkSubfoldersReversed ==
    /\ phase = "Listing"
    /\ stack # <<>>
    /\ LET fr == Head(stack)
           folder == list_contents(fr.id)
           n == Len(folder.folders)
           new == [i \in 1..Len(folder.files) |->
                     [id |-> folder.files[i],
                      name |-> tree.fname[folder.files[i]],
                      path |-> Append(fr.path, tree.fname[folder.files[i]])]]
           subs == [i \in 1..n |->
                     [id |-> folder.folders[n + 1 - i],
                      path |-> Append(fr.path, tree.dname[folder.folders[n + 1 - i]])]]
       IN /\ files' = files \o new
          /\ stack' = subs \o Tail(stack)
          /\ snapshot' = IF folder.files = <<>> /\ folder.folders = <<>>
                         THEN snapshot \cup {fr.id} ELSE snapshot
          /\ outcome' = outcome \o Fill(Len(new), "None")
          /\ dl' = dl \o Fill(Len(new), "idle")
          /\ status' = status \o Fill(Len(new), 0)
          /\ del' = del \o Fill(Len(new), "idle")
    /\ UNCHANGED <<remoteVars, phase, abortedIn, listFaults, local,
                   fileDeletes, pruneVars>>

\* Variant: the path of a file is its name alone, current_path is not joined.
ListOkLeafPath ==
    /\ phase = "Listing"
    /\ stack # <<>>
    /\ LET fr == Head(stack)
           folder == list_contents(fr.id)
           new == [i \in 1..Len(folder.files) |->
                     [id |-> folder.files[i],
                      name |-> tree.fname[folder.files[i]],
                      path |-> <<tree.fname[folder.files[i]]>>]]
           subs == [i \in 1..Len(folder.folders) |->
                     [id |-> folder.folders[i],
                      path |-> Append(fr.path, tree.dname[folder.folders[i]])]]
       IN /\ files' = files \o new
          /\ stack' = subs \o Tail(stack)
          /\ snapshot' = IF folder.files = <<>> /\ folder.folders = <<>>
                         THEN snapshot \cup {fr.id} ELSE snapshot
          /\ outcome' = outcome \o Fill(Len(new), "None")
          /\ dl' = dl \o Fill(Len(new), "idle")
          /\ status' = status \o Fill(Len(new), 0)
          /\ del' = del \o Fill(Len(new), "idle")
    /\ UNCHANGED <<remoteVars, phase, abortedIn, listFaults, local,
                   fileDeletes, pruneVars>>

\* One call of get_all_files whose list_contents returns: the files of the
\* folder are appended, the subfolders are visited next, in listing order.
ListOk ==
    /\ phase = "Listing"
    /\ stack # <<>>
    /\ LET fr == Head(stack)
           folder == list_contents(fr.id)
           new == [i \in 1..Len(folder.files) |->
                     [id |-> folder.files[i],
                      name |-> tree.fname[folder.files[i]],
                      path |-> Append(fr.path, tree.fname[folder.files[i]])]]
           subs == [i \in 1..Len(folder.folders) |->
                     [id |-> folder.folders[i],
                      path |-> Append(fr.path, tree.dname[folder.folders[i]])]]
       IN /\ files' = files \o new
          /\ stack' = subs \o Tail(stack)
          /\ snapshot' = IF folder.files = <<>> /\ folder.folders = <<>>
                         THEN snapshot \cup {fr.id} ELSE snapshot
          /\ outcome' = outcome \o Fill(Len(new), "None")
          /\ dl' = dl \o Fill(Len(new), "idle")
          /\ status' = status \o Fill(Len(new), 0)
          /\ del' = del \o Fill(Len(new), "idle")
    /\ UNCHANGED <<remoteVars, phase, abortedIn, listFaults, local,
                   fileDeletes, pruneVars>>

\* Variant: a listing error is caught and the folder is taken as empty.
ListErrorSwallowed ==
    /\ phase = "Listing"
    /\ stack # <<>>
    /\ listFaults' = listFaults \cup {Head(stack).id}
    /\ stack' = Tail(stack)
    /\ UNCHANGED <<remoteVars, phase, abortedIn, files, snapshot, outcome, dl,
                   status, del, local, fileDeletes, pruneVars>>

\* list_contents raises inside get_all_files: nothing catches it.
ListError ==
    /\ phase = "Listing"
    /\ stack # <<>>
    /\ Raise("Listing")
    /\ listFaults' = listFaults \cup {Head(stack).id}
    /\ UNCHANGED <<remoteVars, stack, files, snapshot, outcome, dl, status,
                   del, local, fileDeletes, pruneVars>>

\* get_all_files has returned; main gathers one process_file per File.
\* Each task runs up to its fetch_file request.
StartDownloads ==
    /\ phase = "Listing"
    /\ stack = <<>>
    /\ phase' = "Downloading"
    /\ dl' = [t \in Tasks |-> "fetch"]
    /\ UNCHANGED <<remoteVars, abortedIn, listVars, outcome, status, del,
                   local, fileDeletes, pruneVars>>

----------------------------------------------------------------------------
\* Downloading: process_file / File.download

\* file_details returns the download url; session.get is sent.
FetchOk(t) ==
    /\ dl[t] = "fetch"
    /\ dl' = [dl EXCEPT ![t] = "get"]
    /\ UNCHANGED <<remoteVars, phase, abortedIn, listVars, outcome, status,
                   del, local, fileDeletes, pruneVars>>

\* api.fetch_file raises: the exception leaves download and process_file.
FetchError(t) ==
    /\ dl[t] = "fetch"
    /\ dl' = [dl EXCEPT ![t] = "fetch_error"]
    /\ Raise("Downloading")
    /\ UNCHANGED <<remoteVars, listVars, outcome, status, del, local,
                   fileDeletes, pruneVars>>

\* Variant: the return after the failure branch is missing, so the final
\* assignment of True is reached.
OnResponseFallThrough(t, st) ==
    IF st = 200
    THEN /\ dl' = [dl EXCEPT ![t] = "read"]
         /\ local' = local \cup {files[t].path}
         /\ UNCHANGED outcome
    ELSE /\ dl' = [dl EXCEPT ![t] = "done"]
         /\ outcome' = [outcome EXCEPT ![t] = "True"]
         /\ UNCHANGED local

\* Variant: the failure branch returns without recording the outcome.
OnResponseUnrecorded(t, st) ==
    IF st = 200
    THEN /\ dl' = [dl EXCEPT ![t] = "read"]
         /\ local' = local \cup {files[t].path}
         /\ UNCHANGED outcome
    ELSE /\ dl' = [dl EXCEPT ![t] = "done"]
         /\ UNCHANGED <<outcome, local>>

\* Variant: a failed response is retried from fetch_file.
OnResponseRetry(t, st) ==
    IF st = 200
    THEN /\ dl' = [dl EXCEPT ![t] = "read"]
         /\ local' = local \cup {files[t].path}
         /\ UNCHANGED outcome
    ELSE /\ dl' = [dl EXCEPT ![t] = "fetch"]
         /\ UNCHANGED <<outcome, local>>

\* The branches on resp.status: 200 opens the local file and streams,
\* any other status records the failure and returns.
OnResponse(t, st) ==
    IF st = 200
    THEN /\ dl' = [dl EXCEPT ![t] = "read"]
         /\ local' = local \cup {files[t].path}
         /\ UNCHANGED outcome
    ELSE /\ dl' = [dl EXCEPT ![t] = "done"]
         /\ outcome' = [outcome EXCEPT ![t] = "False"]
         /\ UNCHANGED local

\* session.get returns a response with status st.
Response(t, st) ==
    /\ dl[t] = "get"
    /\ status' = [status EXCEPT ![t] = st]
    /\ OnResponse(t, st)
    /\ UNCHANGED <<remoteVars, phase, abortedIn, listVars, del,
                   fileDeletes, pruneVars>>

\* resp.content.read returns the empty chunk: the loop ends and the
\* download is recorded as successful.
ReadEOF(t) ==
    /\ dl[t] = "read"
    /\ dl' = [dl EXCEPT ![t] = "done"]
    /\ outcome' = [outcome EXCEPT ![t] = "True"]
    /\ UNCHANGED <<remoteVars, phase, abortedIn, listVars, status, del,
                   local, fileDeletes, pruneVars>>

\* session.get or resp.content.read raises (connection fault, the 5 hour
\* ClientTimeout): the exception leaves download and process_file.
TransportError(t) ==
    /\ dl[t] \in {"get", "read"}
    /\ dl' = [dl EXCEPT ![t] = "transport_error"]
    /\ Raise("Downloading")
    /\ UNCHANGED <<remoteVars, listVars, outcome, status, del, local,
                   fileDeletes, pruneVars>>

\* Variant: main goes on as soon as one download has returned.
DownloadsAnyComplete == Tasks = {} \/ \E t \in Tasks : dl[t] = "done"

\* asyncio.gather(*tasks) of the downloads returns.
DownloadsComplete == \A t \in Tasks : dl[t] = "done"

----------------------------------------------------------------------------
\* Deleting: delete_successful_file / File.delete

\* Variant: the attribute is looked up under another name and never found.
get_was_download_successful_unset(t) == "None"

\* File.get_was_download_successful: None while the attribute is unset.
get_was_download_successful(t) == outcome[t]

\* Variant: the test is "is not None" instead of truthiness.
TruthyNotNone(v) == v # "None"

\* The truth value Python gives to None, True and False in an if.
Truthy(v) == v = "True"

\* The test of delete_successful_file.
ShouldDelete(t) == Truthy(get_was_download_successful(t))

\* Variant: the deletes are started from a finally block, also when the
\* gather of the downloads raised.
StartDeletesInFinally ==
    /\ \/ phase = "Downloading" /\ DownloadsComplete
       \/ phase = "Aborted" /\ abortedIn = "Downloading"
    /\ phase' = "Deleting"
    /\ del' = [t \in Tasks |-> IF ShouldDelete(t) THEN "deleting" ELSE "done"]
    /\ fileDeletes' = fileDeletes \cup {files[t].id : t \in {u \in Tasks : ShouldDelete(u)}}
    /\ UNCHANGED <<remoteVars, abortedIn, listVars, outcome, dl, status,
                   local, ppc, pfolders, pidx, pruneSeen, folderDeletes>>

\* The gather of the downloads has returned; main gathers one
\* delete_successful_file per File.  Each task runs up to its delete_item
\* request, or returns at once when the download was not successful.
StartDeletes ==
    /\ phase = "Downloading"
    /\ DownloadsComplete
    /\ phase' = "Deleting"
    /\ del' = [t \in Tasks |-> IF ShouldDelete(t) THEN "deleting" ELSE "done"]
    /\ fileDeletes' = fileDeletes \cup {files[t].id : t \in {u \in Tasks : ShouldDelete(u)}}
    /\ UNCHANGED <<remoteVars, abortedIn, listVars, outcome, dl, status,
                   local, ppc, pfolders, pidx, pruneSeen, folderDeletes>>

\* delete_item(id, 'file') returns: the file is gone from the remote store.
DeleteOk(t) ==
    /\ del[t] = "deleting"
    /\ del' = [del EXCEPT ![t] = "done"]
    /\ rfiles' = rfiles \ {files[t].id}
    /\ UNCHANGED <<tree, rfolders, phase, abortedIn, listVars, outcome, dl,
                   status, local, fileDeletes, pruneVars>>

\* delete_item(id, 'file') raises: the exception leaves File.delete and
\* delete_successful_file.
DeleteError(t) ==
    /\ del[t] = "deleting"
    /\ del' = [del EXCEPT ![t] = "error"]
    /\ Raise("Deleting")
    /\ UNCHANGED <<remoteVars, listVars, outcome, dl, status, local,
                   fileDeletes, pruneVars>>

\* Variant: main goes on as soon as one delete task has returned.
DeletesAnyComplete == Tasks = {} \/ \E t \in Tasks : del[t] = "done"

\* asyncio.gather(*tasks) of the deletes returns.
DeletesComplete == \A t \in Tasks : del[t] = "done"

----------------------------------------------------------------------------
\* Pruning: delete_empty_folders

\* Variant: the answer comes from the listing taken by get_all_files.
is_folder_empty_cached(folder_id) == folder_id \in snapshot

\* Variant: only the files of the listing are counted.
is_folder_empty_files_only(folder_id) ==
    LET r == list_contents(folder_id)
    IN Len(r.files) = 0

\* Variant: the test is inverted.
is_folder_empty_inverted(folder_id) ==
    LET r == list_contents(folder_id)
    IN ~(Len(r.files) = 0 /\ Len(r.folders) = 0)

\* is_folder_empty: a listing of the folder with no file and no folder.
is_folder_empty(folder_id) ==
    LET r == list_contents(folder_id)
    IN Len(r.files) = 0 /\ Len(r.folders) = 0

\* The gather of the deletes has returned; delete_empty_folders lists root.
StartPrune ==
    /\ phase = "Deleting"
    /\ DeletesComplete
    /\ phase' = "Pruning"
    /\ ppc' = "list_root"
    /\ UNCHANGED <<remoteVars, abortedIn, listVars, outcome, dl, status, del,
                   local, fileDeletes, pfolders, pidx, pruneSeen, folderDeletes>>

\* The loop of delete_empty_folders moves to index i of a list of length n,
\* or delete_empty_folders and main return.
LoopTo(i, n) ==
    /\ pidx' = i
    /\ IF i <= n
       THEN ppc' = "is_empty" /\ UNCHANGED phase
       ELSE ppc' = "end" /\ phase' = "Done"

\* list_contents('root') returns.
PruneListRoot ==
    /\ phase = "Pruning"
    /\ ppc = "list_root"
    /\ pfolders' = list_contents(Root).folders
    /\ LoopTo(1, Len(list_contents(Root).folders))
    /\ UNCHANGED <<remoteVars, abortedIn, listVars, outcome, dl, status, del,
                   local, fileDeletes, pruneSeen, folderDeletes>>

\* The listing inside is_folder_empty returns: a folder that is not empty
\* is skipped, an empty one has delete_item called on it.
PruneCheck ==
    /\ phase = "Pruning"
    /\ ppc = "is_empty"
    /\ LET f == pfolders[pidx]
           e == is_folder_empty(f)
       IN /\ pruneSeen' = pruneSeen \cup {<<f, e>>}
          /\ IF e
             THEN /\ ppc' = "delete"
                  /\ folderDeletes' = folderDeletes \cup {f}
                  /\ UNCHANGED <<pidx, phase>>
             ELSE /\ LoopTo(pidx + 1, Len(pfolders))
                  /\ UNCHANGED folderDeletes
    /\ UNCHANGED <<remoteVars, abortedIn, listVars, outcome, dl, status, del,
                   local, fileDeletes, pfolders>>

\* delete_item(id, 'folder') returns: the folder and what is inside it are
\* gone from the remote store.
PruneDeleteOk ==
    /\ phase = "Pruning"
    /\ ppc = "delete"
    /\ rfolders' = {d \in rfolders : ~Below(d, pfolders[pidx])}
    /\ rfiles' = {f \in rfiles : ~Below(tree.fparent[f], pfolders[pidx])}
    /\ LoopTo(pidx + 1, Len(pfolders))
    /\ UNCHANGED <<tree, abortedIn, listVars, outcome, dl, status, del,
                   local, fileDeletes, pfolders, pruneSeen, folderDeletes>>

\* A list_contents or delete_item of delete_empty_folders raises.
PruneError ==
    /\ phase = "Pruning"
    /\ ppc \in {"list_root", "is_empty", "delete"}
    /\ Raise("Pruning")
    /\ UNCHANGED <<remoteVars, listVars, outcome, dl, status, del, local,
                   fileDeletes, pruneVars>>

----------------------------------------------------------------------------
\* asyncio.run cancels the tasks still pending once main has raised.
CancelAll ==
    /\ phase = "Aborted"
    /\ \E t \in Tasks : dl[t] \in {"fetch", "get", "read"} \/ del[t] = "deleting"
    /\ dl' = [t \in Tasks |-> IF dl[t] \in {"fetch", "get", "read"}
                              THEN "cancelled" ELSE dl[t]]
    /\ del' = [t \in Tasks |-> IF del[t] = "deleting" THEN "cancelled" ELSE del[t]]
    /\ UNCHANGED <<remoteVars, phase, abortedIn, listVars, outcome, status,
                   local, fileDeletes, pruneVars>>

----------------------------------------------------------------------------
Next ==
    \/ ListOk
    \/ ListError
    \/ StartDownloads
    \/ \E t \in Tasks : FetchOk(t)
    \/ \E t \in Tasks : FetchError(t)
    \/ \E t \in Tasks : \E st \in Statuses : Response(t, st)
    \/ \E t \in Tasks : ReadEOF(t)
    \/ \E t \in Tasks : TransportError(t)
    \/ StartDeletes
    \/ \E t \in Tasks : DeleteOk(t)
    \/ \E t \in Tasks : DeleteError(t)
    \/ StartPrune
    \/ PruneListRoot
    \/ PruneCheck
    \/ PruneDeleteOk
    \/ PruneError
    \/ CancelAll

Spec == Init /\ [][Next]_vars

\* Every remote call and every transfer eventually returns or fails, and
\* the event loop keeps scheduling the tasks that can run.
SpecFair == Init /\ [][Next]_vars /\ WF_vars(Next)

----------------------------------------------------------------------------
\* The run on the remote tree of the end-to-end scenario: root holds
\* root.txt and the folder docs, docs holds a.pdf and b.pdf.
ScenarioTree ==
    [files |-> 1..3, folders |-> 1..1,
     fparent |-> <<Root, 1, 1>>, dparent |-> <<Root>>,
     fname |-> <<"root.txt", "a.pdf", "b.pdf">>,
     dname |-> <<"docs">>]

\* The state main starts from, for a given remote tree.
InitOn(tr) ==
    /\ tree = tr
    /\ rfiles = tr.files
    /\ rfolders = tr.folders
    /\ phase = "Listing"
    /\ abortedIn = "none"
    /\ stack = << [id |-> Root, path |-> <<>>] >>
    /\ files = <<>>
    /\ snapshot = {}
    /\ listFaults = {}
    /\ outcome = <<>>
    /\ dl = <<>>
    /\ status = <<>>
    /\ del = <<>>
    /\ local = {}
    /\ fileDeletes = {}
    /\ folderDeletes = {}
    /\ ppc = "idle"
    /\ pfolders = <<>>
    /\ pidx = 0
    /\ pruneSeen = {}

InitScenario == InitOn(ScenarioTree)

SpecScenario == InitScenario /\ [][Next]_vars

----------------------------------------------------------------------------
\* The lister alone, on remote trees whose item names are any names of
\* Names: the store keys its items by id, so names may repeat.
Names == {"a", "b"}

NamedTrees ==
    UNION { { [tr EXCEPT !.fname = fn, !.dname = dn] :
                fn \in [tr.files -> Names], dn \in [tr.folders -> Names] } :
            tr \in Trees }

InitList == \E tr \in NamedTrees : InitOn(tr)

NextList ==
    \/ ListOk
    \/ ListError
    \/ StartDownloads

SpecList == InitList /\ [][NextList]_vars

RECURSIVE get_all_files(_, _), SubFiles(_, _, _)
\* get_all_files as the recursive function of the source: the files of the
\* folder, then the result of each subfolder in listing order.
get_all_files(folder_id, current_path) ==
    LET folder == list_contents(folder_id)
        own == [i \in 1..Len(folder.files) |->
                  [id |-> folder.files[i],
                   name |-> tree.fname[folder.files[i]],
                   path |-> Append(current_path, tree.fname[folder.files[i]])]]
    IN own \o SubFiles(folder.folders, 1, current_path)

\* The loop over folder['folders'] from index i on.
SubFiles(subfolders, i, current_path) ==
    IF i > Len(subfolders) THEN <<>>
    ELSE get_all_files(subfolders[i], Append(current_path, tree.dname[subfolders[i]]))
         \o SubFiles(subfolders, i + 1, current_path)

----------------------------------------------------------------------------
TypeOK ==
    /\ phase \in {"Listing", "Downloading", "Deleting", "Pruning", "Done", "Aborted"}
    /\ abortedIn \in {"none", "Listing", "Downloading", "Deleting", "Pruning"}
    /\ Len(outcome) = Len(files) /\ Len(dl) = Len(files)
    /\ Len(status) = Len(files) /\ Len(del) = Len(files)
    /\ \A t \in Tasks :
        /\ outcome[t] \in {"None", "True", "False"}
        /\ dl[t] \in {"idle", "fetch", "get", "read", "done", "fetch_error",
                      "transport_error", "cancelled"}
        /\ del[t] \in {"idle", "deleting", "done", "error", "cancelled"}
        /\ status[t] \in Statuses \cup {0}
    /\ rfiles \subseteq tree.files
    /\ rfolders \subseteq tree.folders

----------------------------------------------------------------------------
\* Properties

Succeeded(t) == outcome[t] = "True"
Failed(t) == outcome[t] = "False"
InFlight(t) == dl[t] \in {"fetch", "get", "read"}

\* What a folder of the remote store holds right now.
Holds(f) == {x \in rfiles : tree.fparent[x] = f} \cup {d \in rfolders : tree.dparent[d] = f}

\* C1 - Deletion gating: a remote delete-by-id has been issued for a File
\* only if its download outcome is Succeeded; a File whose outcome is Failed
\* or unset never has a delete issued for it.
C1_DeletionGating ==
    \A t \in Tasks :
        (files[t].id \in fileDeletes \/ del[t] \in {"deleting", "error", "cancelled"})
            => Succeeded(t)

\* C1 witness: the run is over, a delete was issued for a Succeeded File and
\* a Failed File was left alone.
C1_Witness ==
    /\ phase = "Done"
    /\ \E t \in Tasks : Failed(t) /\ files[t].id \notin fileDeletes
    /\ \E t \in Tasks : Succeeded(t) /\ files[t].id \in fileDeletes

\* C2 - Download barrier: once any remote delete call (file or folder) has
\* been issued, no dispatched download is in flight: all have returned.
C2_DownloadBarrier ==
    (fileDeletes # {} \/ folderDeletes # {}) => \A t \in Tasks : dl[t] = "done"

\* C2 witness: several downloads were dispatched and the first deletes are
\* in flight.
C2_Witness ==
    /\ phase = "Deleting"
    /\ Len(files) >= 2
    /\ \E t \in Tasks : del[t] = "deleting"

\* C3 - A fetch_file error is recorded as a Failed outcome of that task and
\* does not abort the run.
C3_ResolutionErrorIsFailed ==
    \A t \in Tasks : dl[t] = "fetch_error" => (Failed(t) /\ phase # "Aborted")

\* C4 - A transport fault or timeout while streaming is recorded as a Failed
\* outcome of that task and does not abort the run.
C4_TransportFaultIsFailed ==
    \A t \in Tasks : dl[t] = "transport_error" => (Failed(t) /\ phase # "Aborted")

\* C5 - A response with a status other than 200 records the outcome Failed,
\* the task returns normally, its file is never deleted, and the run is
\* aborted only by an exception of some other step.
C5_NonSuccessStatusIsFailed ==
    /\ \A t \in Tasks :
          status[t] \notin {0, 200} =>
              /\ Failed(t)
              /\ dl[t] = "done"
              /\ files[t].id \notin fileDeletes
              /\ files[t].id \in rfiles
    /\ abortedIn = "Downloading" =>
          \E t \in Tasks : dl[t] \in {"fetch_error", "transport_error"}

\* C5 witness: the run reached Done with a File whose response was not 200
\* while another File was downloaded and deleted.
C5_Witness ==
    /\ phase = "Done"
    /\ \E t \in Tasks : status[t] = 404
    /\ \E t \in Tasks : status[t] = 200 /\ files[t].id \notin rfiles

\* C6 - Outcome invariant: no File has an outcome before its download has
\* returned; in Deleting, Pruning and Done every File has an outcome that is
\* Succeeded or Failed; an outcome that is set never changes.
C6_OutcomeInvariant ==
    /\ [](\A t \in Tasks :
            (phase = "Listing" \/ dl[t] = "idle" \/ InFlight(t)) => outcome[t] = "None")
    /\ [](phase \in {"Deleting", "Pruning", "Done"} =>
            \A t \in Tasks : outcome[t] \in {"True", "False"})
    /\ [][\A t \in Tasks : outcome[t] # "None" => outcome'[t] = outcome[t]]_vars

\* C6 witness: the download phase is over with both outcomes recorded.
C6_Witness ==
    /\ phase = "Pruning"
    /\ \E t \in Tasks : Succeeded(t)
    /\ \E t \in Tasks : Failed(t)

\* C7 - At Done, the files for which a delete was issued, and the files gone
\* from the remote store, are exactly the files of the Succeeded tasks.
C7_DeletedIffSucceeded ==
    phase = "Done" =>
        /\ fileDeletes = {files[t].id : t \in {u \in Tasks : Succeeded(u)}}
        /\ tree.files \ rfiles = {files[t].id : t \in {u \in Tasks : Succeeded(u)}}

\* C7 witness: Done with two files deleted and one kept.
C7_Witness ==
    /\ phase = "Done"
    /\ Cardinality(fileDeletes) >= 2
    /\ \E t \in Tasks : ~Succeeded(t)

\* C8 - An error of one file delete does not abort the run.
C8_DeleteErrorDoesNotAbort ==
    \A t \in Tasks : del[t] = "error" => phase # "Aborted"

\* C9 - Folder prune: a delete is issued for a folder iff is_folder_empty
\* answered true for it at prune time; every answer agrees with what the
\* folder holds in the remote store at that time (not with the listing of
\* the Listing phase); a folder that holds a file is never deleted; at Done
\* every top-level folder listed at prune time is deleted iff it is empty.
C9_PruneCorrectness ==
    /\ \A f \in tree.folders : f \in folderDeletes <=> <<f, TRUE>> \in pruneSeen
    /\ \A r \in pruneSeen : r[2] = (Holds(r[1]) = {})
    /\ \A f \in folderDeletes : \A x \in rfiles : ~Below(tree.fparent[x], f)
    /\ phase = "Done" =>
          \A i \in DOMAIN pfolders :
              pfolders[i] \in folderDeletes <=> Holds(pfolders[i]) = {}

\* C9 witness: Done, a folder that held a file at Listing was emptied by the
\* run and deleted, and another top-level folder that holds a file is kept.
C9_Witness ==
    /\ phase = "Done"
    /\ \E f \in folderDeletes : f \notin snapshot /\ f \notin rfolders
    /\ \E g \in rfolders : tree.dparent[g] = Root /\ \E x \in rfiles : tree.fparent[x] = g

\* C10 - A listing error during get_all_files, at root or at a nested
\* folder, aborts the run: no download is dispatched, nothing is written,
\* no delete is issued and the remote store is unchanged.
C10_ListingFaultAborts ==
    listFaults # {} =>
        /\ phase = "Aborted"
        /\ abortedIn = "Listing"
        /\ \A t \in Tasks : dl[t] = "idle" /\ del[t] = "idle" /\ outcome[t] = "None"
        /\ local = {}
        /\ fileDeletes = {} /\ folderDeletes = {}
        /\ rfiles = tree.files /\ rfolders = tree.folders
        /\ ppc = "idle"

\* C10 witness: the listing of a nested folder raised after files had been
\* collected.
C10_Witness ==
    /\ \E d \in listFaults : d # Root /\ tree.dparent[d] # Root
    /\ files # <<>>
    /\ phase = "Aborted"


\* main has returned or raised and no task is left pending.
RunEnded ==
    \/ phase = "Done"
    \/ /\ phase = "Aborted"
       /\ \A t \in Tasks : ~InFlight(t) /\ del[t] # "deleting"

\* C11 - Scenario: root.txt and b.pdf are downloaded, the transfer of a.pdf
\* fails while streaming, nothing else fails.  The run ends with root.txt
\* and b.pdf deleted remotely, a.pdf and docs still in the remote store, and
\* root.txt, docs/a.pdf and docs/b.pdf on the local disk.
C11_ScenarioOutcome ==
    ( /\ RunEnded
      /\ Len(files) = 3
      /\ Succeeded(1) /\ Succeeded(3)
      /\ status[2] = 200 /\ dl[2] = "transport_error"
      /\ abortedIn \notin {"Deleting", "Pruning"} )
    => /\ fileDeletes = {1, 3}
       /\ rfiles = {2}
       /\ rfolders = {1}
       /\ folderDeletes = {}
       /\ local = {<<"root.txt">>, <<"docs", "a.pdf">>, <<"docs", "b.pdf">>}


RECURSIVE FolderChain(_)
\* The names of the folders from the root down to folder d.
FolderChain(d) ==
    IF d = Root THEN <<>>
    ELSE Append(FolderChain(tree.dparent[d]), tree.dname[d])

\* The root-to-file name chain of remote file f.
FileChain(f) == Append(FolderChain(tree.fparent[f]), tree.fname[f])

\* get_all_files has returned.
Listed == phase # "Listing" /\ listFaults = {}

\* C12 - Traversal completeness: when get_all_files returns, the list holds
\* exactly one File per remote file, the path of each is its root-to-file
\* name chain, and the set of paths is the set of these chains.
C12_TraversalComplete ==
    Listed =>
        /\ Len(files) = Cardinality(tree.files)
        /\ {files[t].id : t \in Tasks} = tree.files
        /\ \A t \in Tasks : /\ files[t].path = FileChain(files[t].id)
                            /\ files[t].name = tree.fname[files[t].id]
        /\ {files[t].path : t \in Tasks} = {FileChain(f) : f \in tree.files}

\* C12 witness: the tree {a, b/c, b/d/e} in shape (a file in root, one in a
\* top-level folder, one in a folder inside it) has been listed.
C12_Witness ==
    /\ Listed
    /\ \E f1, f2, f3 \in tree.files :
          /\ tree.fparent[f1] = Root
          /\ tree.fparent[f2] # Root /\ tree.dparent[tree.fparent[f2]] = Root
          /\ tree.fparent[f3] # Root /\ tree.dparent[tree.fparent[f3]] = tree.fparent[f2]
    /\ Len(files) = 3


\* The folder that holds the file of task t.
FolderOf(t) == tree.fparent[files[t].id]

\* C16 - Deterministic traversal order: when get_all_files returns, the list
\* is the value of the recursive function on the tree (so two calls on the
\* same tree give the same sequence); a direct file of a folder precedes
\* every file of its subfolders; the files of one folder are in listing
\* order; the files below a folder are contiguous; the files below a
\* subfolder precede those below a later sibling subfolder.
C16_TraversalOrder ==
    Listed =>
        /\ files = get_all_files(Root, <<>>)
        /\ \A i, j \in Tasks :
              (FolderOf(i) # FolderOf(j) /\ Below(FolderOf(i), FolderOf(j))) => j < i
        /\ \A i, j \in Tasks :
              (FolderOf(i) = FolderOf(j) /\ files[i].id < files[j].id) => i < j
        /\ \A d \in tree.folders : \A i, j, k \in Tasks :
              (i < k /\ k < j /\ Below(FolderOf(i), d) /\ Below(FolderOf(j), d))
                  => Below(FolderOf(k), d)
        /\ \A d, e \in tree.folders : \A i, j \in Tasks :
              (d < e /\ tree.dparent[d] = tree.dparent[e]
                 /\ Below(FolderOf(i), d) /\ Below(FolderOf(j), e)) => i < j

\* C16 witness: listed, a folder holds a direct file and two subfolders
\* with a file each.
C16_Witness ==
    /\ Listed
    /\ \E i, j, k \in Tasks :
          /\ FolderOf(j) # Root /\ FolderOf(k) # Root
          /\ FolderOf(j) # FolderOf(k)
          /\ tree.dparent[FolderOf(j)] = FolderOf(i)
          /\ tree.dparent[FolderOf(k)] = FolderOf(i)

\* No two items of one folder share a name.
SiblingNamesUnique ==
    /\ \A f, g \in tree.files :
          (f # g /\ tree.fparent[f] = tree.fparent[g]) => tree.fname[f] # tree.fname[g]
    /\ \A d, e \in tree.folders :
          (d # e /\ tree.dparent[d] = tree.dparent[e]) => tree.dname[d] # tree.dname[e]

\* C17 as stated - Distinct write targets: for every remote tree, any two
\* different Files of the list have different relative paths.
C17_DistinctPaths ==
    Listed => \A i, j \in Tasks : i # j => files[i].path # files[j].path

\* C17 amended - when no two items of one remote folder share a name, any
\* two different Files of the list have different relative paths.
C17_DistinctPathsUniqueSiblings ==
    (Listed /\ SiblingNamesUnique) =>
        \A i, j \in Tasks : i # j => files[i].path # files[j].path

\* C17 witness: listed, sibling names are unique and two files in different
\* folders have the same name.
C17_Witness ==
    /\ Listed
    /\ SiblingNamesUnique
    /\ \E i, j \in Tasks : i # j /\ files[i].name = files[j].name


\* C13 - Pruning follows file deletion: once delete_empty_folders has made
\* any call (a listing or a folder delete), no file delete is in flight and
\* every delete task has returned.
C13_PruneAfterDeletes ==
    (ppc # "idle" \/ pruneSeen # {} \/ folderDeletes # {}) =>
        \A t \in Tasks : del[t] = "done"

\* C13 witness: pruning is listing a folder after two file deletes of this
\* run have completed.
C13_Witness ==
    /\ phase = "Pruning"
    /\ ppc = "is_empty"
    /\ Cardinality(tree.files \ rfiles) >= 2

\* C14 - Pruning is shallow: a folder delete is only ever issued for a
\* direct child of root, a folder below a top-level folder always stays in
\* the remote store, and a top-level folder that holds a subfolder is not
\* deleted.
C14_ShallowPrune ==
    /\ \A f \in folderDeletes : tree.dparent[f] = Root
    /\ \A d \in tree.folders : tree.dparent[d] # Root =>
          /\ d \in rfolders
          /\ d \notin folderDeletes
          /\ tree.dparent[d] \in rfolders
          /\ tree.dparent[d] \notin folderDeletes

\* C14 witness: Done, a nested folder was emptied by the run and is the only
\* content of its top-level folder, and both are still there.
C14_Witness ==
    /\ phase = "Done"
    /\ \E d \in rfolders :
          /\ tree.dparent[d] # Root
          /\ d \notin snapshot
          /\ Holds(d) = {}
          /\ Holds(tree.dparent[d]) = {d}

\* C15 - An error of the listing or of the delete of one top-level folder
\* during pruning does not abort the run.
C15_PruneErrorDoesNotAbort ==
    ~(abortedIn = "Pruning" /\ ppc \in {"is_empty", "delete"})

\* C18 - If the run is aborted during the download phase, no file delete
\* and no folder delete is ever issued and the remote store is unchanged,
\* also for the tasks whose download had recorded Succeeded.
C18_AbortedDownloadLeavesRemote ==
    abortedIn = "Downloading" =>
        /\ phase = "Aborted"
        /\ fileDeletes = {} /\ folderDeletes = {}
        /\ \A t \in Tasks : del[t] = "idle"
        /\ ppc = "idle"
        /\ rfiles = tree.files /\ rfolders = tree.folders

\* C18 witness: aborted in the download phase, every task has ended and one
\* download had succeeded.
C18_Witness ==
    /\ abortedIn = "Downloading"
    /\ RunEnded
    /\ \E t \in Tasks : Succeeded(t)

\* C19 - No remote data is lost: a remote file that has no task with
\* outcome Succeeded is still in the remote store, with every folder above
\* it, and no delete was issued for a folder above it.
C19_NoDataLoss ==
    \A f \in tree.files :
        (~\E t \in Tasks : files[t].id = f /\ Succeeded(t)) =>
            /\ f \in rfiles
            /\ \A d \in tree.folders : Below(tree.fparent[f], d) =>
                  (d \in rfolders /\ d \notin folderDeletes)

\* C19 witness: Done, a file inside a folder failed to download and
\* another top-level folder was pruned.
C19_Witness ==
    /\ phase = "Done"
    /\ \E t \in Tasks : Failed(t) /\ FolderOf(t) # Root
    /\ \E t \in Tasks : Succeeded(t) /\ FolderOf(t) \in folderDeletes

\* The order of the phases of main.
PhaseRank(p) ==
    CASE p = "Listing" -> 1
      [] p = "Downloading" -> 2
      [] p = "Deleting" -> 3
      [] p = "Pruning" -> 4
      [] p = "Done" -> 5
      [] p = "Aborted" -> 5

\* C20 - Termination: every fair run ends, with main in Done or Aborted and
\* no task pending; the phase never goes back, and Done and Aborted are
\* never left.
C20_Termination ==
    /\ <>[]RunEnded
    /\ [][PhaseRank(phase') >= PhaseRank(phase)]_vars
    /\ [][(phase \in {"Done", "Aborted"}) => (phase' = phase)]_vars

\* C20 witness: a run that went through every phase and pruned a folder.
C20_Witness ==
    /\ phase = "Done"
    /\ folderDeletes # {}
    /\ \A t \in Tasks : del[t] = "done"
    /\ Len(files) >= 1

====
